---- MODULE Spec2Model ----
(***************************************************************************)
(* A model of app.py, the short-form video generator: the pipeline of      *)
(* main (key guard, narration synthesis, silent base video, word timings,  *)
(* subtitle rendering, final mux, cleanup), the per-frame subtitle loop of *)
(* draw_subtitles_on_video, and the crop/resize arithmetic of              *)
(* create_silent_base_video.                                               *)
(*                                                                         *)
(* Three specifications share the variables:                               *)
(*   Spec          the run of main over a file system (SpecEnv adds an     *)
(*                 outside actor that may delete a temporary file);        *)
(*   SpecSubtitles draw_subtitles_on_video, one loop iteration per step;   *)
(*   SpecCrop      create_silent_base_video's size computation.            *)
(***************************************************************************)
EXTENDS Integers, Sequences, FiniteSets, TLC

VARIABLES
    \* ---- main ----
    apiKey,               \* the value of ELEVENLABS_API_KEY
    pc,                   \* position of the running function
    disk,                 \* names of the files that exist
    disk0,                \* the files that existed when the process started
    created,              \* files this run wrote (fully or partly)
    removed,              \* files this run removed with os.remove
    skipped,              \* temporary files cleanup found already missing
    extRemoved,           \* number of files an outside actor deleted
    scriptRead,           \* the script file has been opened and read
    synthCalls,           \* number of calls of generate()
    narration_audio_path, \* what generate_narration returned
    trace,                \* the stages invoked, in order
    completed,            \* the stages that returned normally, in order
    failure,              \* the call that raised, if any
    exitStatus,           \* the process's exit status, Running while it runs
    exitCause,            \* how the process ended
    \* ---- draw_subtitles_on_video ----
    word_timestamps,      \* the word-timing records
    nframes,              \* number of frames of the input video
    frame_count,          \* frames read and written so far
    written,              \* the frames handed to video_writer.write
    \* ---- create_silent_base_video ----
    imgSize,              \* (w, h) of the background image
    clipSize,             \* size of background_clip
    cropAxis              \* which crop branch was taken

mainVars == <<apiKey, pc, disk, disk0, created, removed, skipped, extRemoved,
              scriptRead, synthCalls, narration_audio_path, trace, completed,
              failure, exitStatus, exitCause>>
subVars  == <<word_timestamps, nframes, frame_count, written>>
cropVars == <<imgSize, clipSize, cropAxis>>
vars     == <<mainVars, subVars, cropVars>>

(***************************************************************************)
(* Configuration (app.py lines 11-32)                                      *)
(***************************************************************************)
ELEVENLABS_API_KEY        == "ELEVEN_LABS_API_KEY"
GuardedKey                == "YOUR_ELEVENLABS_API_KEY"
RealKey                   == "sk_user_key"
INPUT_TEXT_FILE           == "script.txt"
INPUT_BACKGROUND_FILE     == "background.jpg"
OUTPUT_VIDEO_FILE         == "final_short.mp4"
TEMP_SILENT_VIDEO_FILE    == "temp_silent_video.mp4"
TEMP_SUBTITLED_VIDEO_FILE == "temp_subtitled_video.mp4"
NarrationDefaultPath      == "narration.mp3"
VIDEO_WIDTH               == 1080
VIDEO_HEIGHT              == 1920
FPS                       == 24
FONT_COLOR                == "white"
FONT_THICKNESS            == 3
SHADOW_COLOR              == "black"
SHADOW_THICKNESS          == 6

\* Values the key constant can hold: as shipped, the string main compares
\* it with, and a key the user filled in.
ApiKeys    == {ELEVENLABS_API_KEY, GuardedKey, RealKey}
InputFiles == {INPUT_TEXT_FILE, INPUT_BACKGROUND_FILE}
TempFiles  == {NarrationDefaultPath, TEMP_SILENT_VIDEO_FILE, TEMP_SUBTITLED_VIDEO_FILE}
AllFiles   == InputFiles \cup TempFiles \cup {OUTPUT_VIDEO_FILE}

\* Python's None, and the exit status of a process that has not ended.
None    == "<none>"
Running == -1

\* Bound of the outside actor of SpecEnv.
MaxExternalRemoves == 1

(***************************************************************************)
(* main (lines 100-132) and generate_narration (lines 36-44)               *)
(***************************************************************************)
Stages == <<"narration", "silent", "timestamps", "draw", "mux", "cleanup">>

\* line 102: the comparison that guards the early exit
KeyGuardHit(key) == key = GuardedKey

\* sys.exit(<str>), sys.exit(1) and an uncaught exception all end with status 1;
\* falling off the end of main ends with status 0.
ExitExplicit(cause) ==
    /\ pc' = "exited"
    /\ exitStatus' = 1
    /\ exitCause' = cause

\* An exception nothing catches: the interpreter prints the traceback and ends
\* the process; no handler or finally clause of main touches the disk.
Uncaught(call) ==
    /\ pc' = "crashed"
    /\ failure' = call
    /\ exitStatus' = 1
    /\ exitCause' = "uncaught"

\* A writer that raised may or may not have left (part of) its file behind.
PartialWrite(f) ==
    \E left \in BOOLEAN :
        /\ disk' = IF left THEN disk \cup {f} ELSE disk
        /\ created' = IF left THEN created \cup {f} ELSE created

Invoke(stage) == trace' = Append(trace, stage)
Return(stage) == completed' = Append(completed, stage)

\* line 102
KeyGuard ==
    /\ pc = "start"
    /\ IF KeyGuardHit(apiKey)
         THEN ExitExplicit("key_guard")
         ELSE /\ pc' = "read_script"
              /\ UNCHANGED <<exitStatus, exitCause>>
    /\ UNCHANGED <<subVars, cropVars, apiKey, disk, disk0, created, removed, skipped, extRemoved,
                   scriptRead, synthCalls, narration_audio_path, trace,
                   completed, failure>>

\* line 105: open + read succeed
ReadScript ==
    /\ pc = "read_script"
    /\ INPUT_TEXT_FILE \in disk
    /\ scriptRead' = TRUE
    /\ pc' = "narration"
    /\ UNCHANGED <<subVars, cropVars, apiKey, disk, disk0, created, removed, skipped, extRemoved,
                   synthCalls, narration_audio_path, trace, completed, failure,
                   exitStatus, exitCause>>

\* line 105: FileNotFoundError, or a decoding error while reading
ReadScriptFail ==
    /\ pc = "read_script"
    /\ Uncaught("open_script")
    /\ UNCHANGED <<subVars, cropVars, apiKey, disk, disk0, created, removed, skipped, extRemoved,
                   scriptRead, synthCalls, narration_audio_path, trace, completed>>

\* lines 106, 36-42: generate returns, the audio is written, the path returned
NarrationOk ==
    /\ pc = "narration"
    /\ Invoke("narration") /\ Return("narration")
    /\ synthCalls' = synthCalls + 1
    /\ disk' = disk \cup {NarrationDefaultPath}
    /\ created' = created \cup {NarrationDefaultPath}
    /\ narration_audio_path' = NarrationDefaultPath
    /\ pc' = "probe"
    /\ UNCHANGED <<subVars, cropVars, apiKey, disk0, removed, skipped, extRemoved, scriptRead,
                   failure, exitStatus, exitCause>>

\* Mutant of SynthRaise: the except clause tries the call again.
SynthRaiseRetry ==
    /\ pc = "narration"
    /\ synthCalls < 3
    /\ synthCalls' = synthCalls + 1
    /\ failure' = "generate"
    /\ UNCHANGED <<subVars, cropVars, apiKey, pc, disk, disk0, created, removed,
                   skipped, extRemoved, scriptRead, narration_audio_path, trace,
                   completed, exitStatus, exitCause>>

\* lines 39-40, 43-44: set_api_key/generate raises; the except clause prints
\* and calls sys.exit(1)
SynthRaise ==
    /\ pc = "narration"
    /\ Invoke("narration")
    /\ synthCalls' = synthCalls + 1
    /\ failure' = "generate"
    /\ ExitExplicit("narration_caught")
    /\ UNCHANGED <<subVars, cropVars, apiKey, disk, disk0, created, removed, skipped, extRemoved,
                   scriptRead, narration_audio_path, completed>>

\* Mutant of AudioWriteRaise: the try block ends before the file is written.
AudioWriteUncaught ==
    /\ pc = "narration"
    /\ Invoke("narration")
    /\ synthCalls' = synthCalls + 1
    /\ PartialWrite(NarrationDefaultPath)
    /\ Uncaught("write_audio")
    /\ UNCHANGED <<subVars, cropVars, apiKey, disk0, removed, skipped, extRemoved,
                   scriptRead, narration_audio_path, completed>>

\* lines 41, 43-44: generate returned but open/write of the audio file raises;
\* the same except clause catches it
AudioWriteRaise ==
    /\ pc = "narration"
    /\ Invoke("narration")
    /\ synthCalls' = synthCalls + 1
    /\ failure' = "write_audio"
    /\ PartialWrite(NarrationDefaultPath)
    /\ ExitExplicit("narration_caught")
    /\ UNCHANGED <<subVars, cropVars, apiKey, disk0, removed, skipped, extRemoved, scriptRead,
                   narration_audio_path, completed>>

\* line 107: AudioFileClip(...).duration
ProbeOk ==
    /\ pc = "probe"
    /\ narration_audio_path \in disk
    /\ pc' = "silent"
    /\ UNCHANGED <<subVars, cropVars, apiKey, disk, disk0, created, removed, skipped, extRemoved,
                   scriptRead, synthCalls, narration_audio_path, trace,
                   completed, failure, exitStatus, exitCause>>

ProbeFail ==
    /\ pc = "probe"
    /\ Uncaught("probe")
    /\ UNCHANGED <<subVars, cropVars, apiKey, disk, disk0, created, removed, skipped, extRemoved,
                   scriptRead, synthCalls, narration_audio_path, trace, completed>>

\* line 110, 46-61
SilentOk ==
    /\ pc = "silent"
    /\ INPUT_BACKGROUND_FILE \in disk
    /\ Invoke("silent") /\ Return("silent")
    /\ disk' = disk \cup {TEMP_SILENT_VIDEO_FILE}
    /\ created' = created \cup {TEMP_SILENT_VIDEO_FILE}
    /\ pc' = "timestamps"
    /\ UNCHANGED <<subVars, cropVars, apiKey, disk0, removed, skipped, extRemoved, scriptRead,
                   synthCalls, narration_audio_path, failure, exitStatus, exitCause>>

SilentFail ==
    /\ pc = "silent"
    /\ Invoke("silent")
    /\ PartialWrite(TEMP_SILENT_VIDEO_FILE)
    /\ Uncaught("silent_video")
    /\ UNCHANGED <<subVars, cropVars, apiKey, disk0, removed, skipped, extRemoved, scriptRead,
                   synthCalls, narration_audio_path, completed>>

\* line 113, 63-69
TimestampsOk ==
    /\ pc = "timestamps"
    /\ narration_audio_path \in disk
    /\ Invoke("timestamps") /\ Return("timestamps")
    /\ pc' = "draw"
    /\ UNCHANGED <<subVars, cropVars, apiKey, disk, disk0, created, removed, skipped, extRemoved,
                   scriptRead, synthCalls, narration_audio_path, failure,
                   exitStatus, exitCause>>

\* Mutant of TimestampsFail: the error is logged and the pipeline goes on.
TimestampsFailSwallowed ==
    /\ pc = "timestamps"
    /\ Invoke("timestamps")
    /\ failure' = "transcribe"
    /\ pc' = "draw"
    /\ UNCHANGED <<subVars, cropVars, apiKey, disk, disk0, created, removed,
                   skipped, extRemoved, scriptRead, synthCalls,
                   narration_audio_path, completed, exitStatus, exitCause>>

TimestampsFail ==
    /\ pc = "timestamps"
    /\ Invoke("timestamps")
    /\ Uncaught("transcribe")
    /\ UNCHANGED <<subVars, cropVars, apiKey, disk, disk0, created, removed, skipped, extRemoved,
                   scriptRead, synthCalls, narration_audio_path, completed>>

\* line 116, 71-98: cv2.VideoCapture does not raise on a missing input (the
\* loop then runs zero times); cv2.VideoWriter creates the output file
DrawOk ==
    /\ pc = "draw"
    /\ Invoke("draw") /\ Return("draw")
    /\ disk' = disk \cup {TEMP_SUBTITLED_VIDEO_FILE}
    /\ created' = created \cup {TEMP_SUBTITLED_VIDEO_FILE}
    /\ pc' = "mux"
    /\ UNCHANGED <<subVars, cropVars, apiKey, disk0, removed, skipped, extRemoved, scriptRead,
                   synthCalls, narration_audio_path, failure, exitStatus, exitCause>>

\* a cv2.error out of getTextSize/putText/write
DrawFail ==
    /\ pc = "draw"
    /\ Invoke("draw")
    /\ PartialWrite(TEMP_SUBTITLED_VIDEO_FILE)
    /\ Uncaught("draw")
    /\ UNCHANGED <<subVars, cropVars, apiKey, disk0, removed, skipped, extRemoved, scriptRead,
                   synthCalls, narration_audio_path, completed>>

\* lines 120-123
MuxOk ==
    /\ pc = "mux"
    /\ TEMP_SUBTITLED_VIDEO_FILE \in disk
    /\ narration_audio_path \in disk
    /\ Invoke("mux") /\ Return("mux")
    /\ disk' = disk \cup {OUTPUT_VIDEO_FILE}
    /\ created' = created \cup {OUTPUT_VIDEO_FILE}
    /\ pc' = "cleanup_audio"
    /\ UNCHANGED <<subVars, cropVars, apiKey, disk0, removed, skipped, extRemoved, scriptRead,
                   synthCalls, narration_audio_path, failure, exitStatus, exitCause>>

\* Mutant of MuxFail: the mux is attempted again after an error.
MuxFailRetry ==
    /\ pc = "mux"
    /\ Len(trace) < 8
    /\ Invoke("mux")
    /\ PartialWrite(OUTPUT_VIDEO_FILE)
    /\ UNCHANGED <<subVars, cropVars, apiKey, pc, disk0, removed, skipped,
                   extRemoved, scriptRead, synthCalls, narration_audio_path,
                   completed, failure, exitStatus, exitCause>>

MuxFail ==
    /\ pc = "mux"
    /\ Invoke("mux")
    /\ PartialWrite(OUTPUT_VIDEO_FILE)
    /\ Uncaught("mux")
    /\ UNCHANGED <<subVars, cropVars, apiKey, disk0, removed, skipped, extRemoved, scriptRead,
                   synthCalls, narration_audio_path, completed>>

\* lines 128-130: `if os.path.exists(f): os.remove(f)`.  The result says
\* whether os.remove was called and whether it raised (it raises
\* FileNotFoundError on a missing file).
\* Mutant of RemoveIfExists: os.remove without the os.path.exists test.
RemoveUnguarded(f, d) ==
    [disk |-> d \ {f}, called |-> TRUE, raised |-> f \notin d]

RemoveIfExists(f, d) ==
    IF f \in d THEN [disk |-> d \ {f}, called |-> TRUE, raised |-> FALSE]
               ELSE [disk |-> d, called |-> FALSE, raised |-> FALSE]

CleanupStep(at, f, next) ==
    /\ pc = at
    /\ LET r == RemoveIfExists(f, disk) IN
         /\ disk' = r.disk
         /\ removed' = IF r.called /\ ~r.raised THEN removed \cup {f} ELSE removed
         /\ skipped' = IF r.called THEN skipped ELSE skipped \cup {f}
         /\ IF r.raised
              THEN Uncaught("remove") /\ UNCHANGED <<trace, completed>>
              ELSE /\ pc' = next
                   /\ trace' = IF at = "cleanup_audio" THEN Append(trace, "cleanup") ELSE trace
                   /\ completed' = IF next = "finish" THEN Append(completed, "cleanup") ELSE completed
                   /\ UNCHANGED <<failure, exitStatus, exitCause>>
    /\ UNCHANGED <<subVars, cropVars, apiKey, disk0, created, extRemoved, scriptRead, synthCalls,
                   narration_audio_path>>

CleanupAudio     == CleanupStep("cleanup_audio", narration_audio_path, "cleanup_silent")
CleanupSilent    == CleanupStep("cleanup_silent", TEMP_SILENT_VIDEO_FILE, "cleanup_subtitled")
CleanupSubtitled == CleanupStep("cleanup_subtitled", TEMP_SUBTITLED_VIDEO_FILE, "finish")

\* line 132 and the return of main
Finish ==
    /\ pc = "finish"
    /\ pc' = "done"
    /\ exitStatus' = 0
    /\ exitCause' = "normal"
    /\ UNCHANGED <<subVars, cropVars, apiKey, disk, disk0, created, removed, skipped, extRemoved,
                   scriptRead, synthCalls, narration_audio_path, trace,
                   completed, failure>>

\* Another process (or the user) deletes a temporary file while main runs:
\* the case the os.path.exists tests of lines 128-130 allow for.
ExternalRemove ==
    /\ pc \notin {"done", "exited", "crashed"}
    /\ extRemoved < MaxExternalRemoves
    /\ \E f \in TempFiles \cap disk :
         disk' = disk \ {f}
    /\ extRemoved' = extRemoved + 1
    /\ UNCHANGED <<subVars, cropVars, apiKey, pc, disk0, created, removed, skipped, scriptRead,
                   synthCalls, narration_audio_path, trace, completed, failure,
                   exitStatus, exitCause>>

SubIdle ==
    /\ word_timestamps = <<>>
    /\ nframes = 0
    /\ frame_count = 0
    /\ written = <<>>

CropIdle ==
    /\ imgSize = <<1, 1>>
    /\ clipSize = <<1, 1>>
    /\ cropAxis = "none"

MainIdle ==
    /\ apiKey = RealKey
    /\ disk = {} /\ disk0 = {} /\ created = {} /\ removed = {} /\ skipped = {}
    /\ extRemoved = 0
    /\ scriptRead = FALSE
    /\ synthCalls = 0
    /\ narration_audio_path = None
    /\ trace = <<>> /\ completed = <<>>
    /\ failure = "none"
    /\ exitStatus = Running
    /\ exitCause = "none"

\* The process starts with any key value and any files lying around (inputs
\* present or not, leftovers of an earlier run present or not).
Init ==
    /\ apiKey \in ApiKeys
    /\ pc = "start"
    /\ disk \in SUBSET AllFiles
    /\ disk0 = disk
    /\ created = {} /\ removed = {} /\ skipped = {}
    /\ extRemoved = 0
    /\ scriptRead = FALSE
    /\ synthCalls = 0
    /\ narration_audio_path = None
    /\ trace = <<>> /\ completed = <<>>
    /\ failure = "none"
    /\ exitStatus = Running
    /\ exitCause = "none"
    /\ SubIdle
    /\ CropIdle

MainNext ==
    \/ KeyGuard
    \/ ReadScript \/ ReadScriptFail
    \/ NarrationOk \/ SynthRaise \/ AudioWriteRaise
    \/ ProbeOk \/ ProbeFail
    \/ SilentOk \/ SilentFail
    \/ TimestampsOk \/ TimestampsFail
    \/ DrawOk \/ DrawFail
    \/ MuxOk \/ MuxFail
    \/ CleanupAudio \/ CleanupSilent \/ CleanupSubtitled
    \/ Finish

Next == MainNext

Spec == Init /\ [][Next]_vars

EnvNext == MainNext \/ ExternalRemove

SpecEnv == Init /\ [][EnvNext]_vars

(***************************************************************************)
(* get_word_timestamps (lines 63-69) and draw_subtitles_on_video (71-98)   *)
(*                                                                         *)
(* Times are whole ticks of 1/TicksPerSecond s, so a record's start and    *)
(* end are the rationals start/TicksPerSecond and end/TicksPerSecond, and  *)
(* current_time = frame_count / FPS is compared with them by cross         *)
(* multiplication.                                                         *)
(***************************************************************************)
TicksPerSecond == 48
MaxTick        == 3
MaxWords       == 2
\* Frames enough to run one frame past the last tick a record can name
MaxFrames      == (MaxTick * FPS) \div TicksPerSecond + 2

\* Words as the transcription model reports them, and w.word.strip().upper()
RawWords == {" Hello", " world", "  "}
StripUpper(raw) ==
    CASE raw = " Hello" -> "HELLO"
      [] raw = " world" -> "WORLD"
      [] raw = "  "     -> ""

\* line 67: one record per transcribed word, in the model's order
GetWordTimestamps(words) ==
    [k \in 1..Len(words) |->
        [word |-> StripUpper(words[k].word), start |-> words[k].start, end |-> words[k].end]]

\* What the transcription model can return: any words, each with start <= end
RawRecords ==
    {[word |-> r, start |-> a, end |-> b] : r \in RawWords, a \in 0..MaxTick, b \in 0..MaxTick}
WhisperRecords == {r \in RawRecords : r.start <= r.end}
WhisperResults ==
    UNION {[1..n -> WhisperRecords] : n \in 0..MaxWords}

\* The narration "HELLO WORLD" of 2.0 s: HELLO over [0.0, 1.0), WORLD over [1.0, 2.0)
ScenarioResult ==
    << [word |-> " Hello", start |-> 0, end |-> TicksPerSecond],
       [word |-> " world", start |-> TicksPerSecond, end |-> 2 * TicksPerSecond] >>
ScenarioFrames == 2 * FPS

\* Mutants of InInterval: the end included; the start excluded.
InIntervalClosed(word, fc) ==
    /\ word.start * FPS <= fc * TicksPerSecond
    /\ fc * TicksPerSecond <= word.end * FPS

InIntervalAfterStart(word, fc) ==
    /\ word.start * FPS < fc * TicksPerSecond
    /\ fc * TicksPerSecond < word.end * FPS

\* lines 81, 84: word['start'] <= frame_count / FPS < word['end']
InInterval(word, fc) ==
    /\ word.start * FPS <= fc * TicksPerSecond
    /\ fc * TicksPerSecond < word.end * FPS

\* Mutant of ScanFrom: no break, so the last matching record wins.
RECURSIVE ScanNoBreak(_, _, _)
ScanNoBreak(wts, k, fc) ==
    IF k > Len(wts) THEN None
    ELSE LET rest == ScanNoBreak(wts, k + 1, fc) IN
         IF rest # None THEN rest
         ELSE IF InInterval(wts[k], fc) THEN wts[k].word ELSE None

\* lines 82-86: the scan from record k on, stopping at the first match
RECURSIVE ScanFrom(_, _, _)
ScanFrom(wts, k, fc) ==
    IF k > Len(wts) THEN None
    ELSE IF InInterval(wts[k], fc) THEN wts[k].word
    ELSE ScanFrom(wts, k + 1, fc)

ActiveWord(wts, fc) == ScanFrom(wts, 1, fc)

\* line 87: `if active_word:` is false for None and for the empty string
Truthy(active_word) == active_word # None /\ active_word # ""

\* line 79: the frame video_capture.read() returns
ReadFrame(fc) == [src |-> fc, calls |-> <<>>]

\* lines 91-92: the outline pass, then the fill pass, at the same origin
PutTextCalls(text) ==
    << [text |-> text, color |-> SHADOW_COLOR, thickness |-> SHADOW_THICKNESS],
       [text |-> text, color |-> FONT_COLOR, thickness |-> FONT_THICKNESS] >>

\* lines 87-92
DrawWord(frame, active_word) ==
    IF Truthy(active_word)
      THEN [frame EXCEPT !.calls = frame.calls \o PutTextCalls(active_word)]
      ELSE frame

\* lines 78-94: one iteration that read a frame
ProcessFrame ==
    /\ pc = "draw_loop"
    /\ frame_count < nframes
    /\ written' = Append(written,
                         DrawWord(ReadFrame(frame_count),
                                  ActiveWord(word_timestamps, frame_count)))
    /\ frame_count' = frame_count + 1
    /\ UNCHANGED <<mainVars, cropVars, word_timestamps, nframes>>

\* lines 79-80, 96-97: read() returns ret = False; both handles are released
EndOfVideo ==
    /\ pc = "draw_loop"
    /\ frame_count = nframes
    /\ pc' = "released"
    /\ UNCHANGED <<apiKey, disk, disk0, created, removed, skipped, extRemoved,
                   scriptRead, synthCalls, narration_audio_path, trace,
                   completed, failure, exitStatus, exitCause>>
    /\ UNCHANGED <<subVars, cropVars>>

SubInit ==
    /\ MainIdle
    /\ CropIdle
    /\ pc = "draw_loop"
    /\ \E res \in WhisperResults \cup {ScenarioResult} :
         /\ word_timestamps = GetWordTimestamps(res)
         /\ nframes \in (IF res = ScenarioResult THEN {ScenarioFrames} ELSE 0..MaxFrames)
    /\ frame_count = 0
    /\ written = <<>>

SubNext == ProcessFrame \/ EndOfVideo

SpecSubtitles == SubInit /\ [][SubNext]_vars

(***************************************************************************)
(* create_silent_base_video (lines 46-61): the size of background_clip     *)
(***************************************************************************)
MaxSide == 32

\* line 53: (w / h) > VIDEO_WIDTH / VIDEO_HEIGHT
WiderThanTarget(size) == size[1] * VIDEO_HEIGHT > size[2] * VIDEO_WIDTH

\* int(x) of a non-negative quotient a / b
IntDiv(a, b) == a \div b

\* line 54: crop(x_center=w/2, width=int(h * target_aspect)): columns
\* int(w/2 - width/2) .. int(w/2 + width/2), all rows
CropLeftRightSize(size) ==
    LET width == IntDiv(size[2] * VIDEO_WIDTH, VIDEO_HEIGHT)
        x1    == IntDiv(size[1] - width, 2)
        x2    == IntDiv(size[1] + width, 2)
    IN  <<x2 - x1, size[2]>>

\* line 56: crop(y_center=h/2, height=int(w / target_aspect))
CropTopBottomSize(size) ==
    LET height == IntDiv(size[1] * VIDEO_HEIGHT, VIDEO_WIDTH)
        y1     == IntDiv(size[2] - height, 2)
        y2     == IntDiv(size[2] + height, 2)
    IN  <<size[1], y2 - y1>>

\* line 58: resize(height=VIDEO_HEIGHT) keeps the aspect ratio: the new size
\* is (int(w * VIDEO_HEIGHT / h), VIDEO_HEIGHT)
ResizeToHeight(size) == <<IntDiv(size[1] * VIDEO_HEIGHT, size[2]), VIDEO_HEIGHT>>

\* lines 53-54
CropLeftRight ==
    /\ pc = "crop"
    /\ WiderThanTarget(clipSize)
    /\ clipSize' = CropLeftRightSize(clipSize)
    /\ cropAxis' = "x"
    /\ pc' = "resize"
    /\ UNCHANGED <<apiKey, disk, disk0, created, removed, skipped, extRemoved,
                   scriptRead, synthCalls, narration_audio_path, trace,
                   completed, failure, exitStatus, exitCause>>
    /\ UNCHANGED <<subVars, imgSize>>

\* lines 55-56
CropTopBottom ==
    /\ pc = "crop"
    /\ ~WiderThanTarget(clipSize)
    /\ clipSize' = CropTopBottomSize(clipSize)
    /\ cropAxis' = "y"
    /\ pc' = "resize"
    /\ UNCHANGED <<apiKey, disk, disk0, created, removed, skipped, extRemoved,
                   scriptRead, synthCalls, narration_audio_path, trace,
                   completed, failure, exitStatus, exitCause>>
    /\ UNCHANGED <<subVars, imgSize>>

\* lines 58-60: the resize, then the clip is written at its size
ResizeAndWrite ==
    /\ pc = "resize"
    /\ clipSize[1] > 0 /\ clipSize[2] > 0
    /\ clipSize' = ResizeToHeight(clipSize)
    /\ pc' = "composed"
    /\ UNCHANGED <<apiKey, disk, disk0, created, removed, skipped, extRemoved,
                   scriptRead, synthCalls, narration_audio_path, trace,
                   completed, failure, exitStatus, exitCause>>
    /\ UNCHANGED <<subVars, imgSize, cropAxis>>

\* line 58: a crop that truncated to zero columns or rows leaves an empty
\* picture, which the resizer rejects with an error
ResizeEmptyFail ==
    /\ pc = "resize"
    /\ clipSize[1] = 0 \/ clipSize[2] = 0
    /\ pc' = "crashed"
    /\ UNCHANGED <<apiKey, disk, disk0, created, removed, skipped, extRemoved,
                   scriptRead, synthCalls, narration_audio_path, trace,
                   completed, failure, exitStatus, exitCause>>
    /\ UNCHANGED <<subVars, cropVars>>

CropInit ==
    /\ MainIdle
    /\ SubIdle
    /\ pc = "crop"
    /\ imgSize \in (1..MaxSide) \X (1..MaxSide)
    /\ clipSize = imgSize
    /\ cropAxis = "none"

CropNext == CropLeftRight \/ CropTopBottom \/ ResizeAndWrite \/ ResizeEmptyFail

SpecCrop == CropInit /\ [][CropNext]_vars

(***************************************************************************)
(* Properties of main                                                      *)
(***************************************************************************)
Ended == pc \in {"done", "exited", "crashed"}

IsPrefix(s, t) == Len(s) <= Len(t) /\ \A i \in 1..Len(s) : s[i] = t[i]

\* The calls of main after generate_narration that can raise, and the stage
\* each belongs to (0: the duration probe, which is no stage of its own).
PostNarrationCalls == {"probe", "silent_video", "transcribe", "draw", "mux"}
StageIndex(call) ==
    CASE call = "probe"        -> 1
      [] call = "silent_video" -> 2
      [] call = "transcribe"   -> 3
      [] call = "draw"         -> 4
      [] call = "mux"          -> 5

\* C3: with ELEVENLABS_API_KEY left as shipped, main exits explicitly before
\* the script is read, before generate() is called and before any file is
\* written.
C3_PlaceholderExitsBeforeWork ==
    apiKey = ELEVENLABS_API_KEY =>
        /\ pc \in {"start", "exited"}
        /\ pc = "exited" => exitCause = "key_guard"
        /\ ~scriptRead
        /\ synthCalls = 0
        /\ created = {}

\* C4: after a successful run no temporary file exists and the output file
\* does; cleanup never raises on a missing temporary file, removes nothing
\* but temporary files, and leaves the inputs and the output in place.
C4_CleanupAfterSuccess ==
    /\ pc = "done" =>
          /\ TempFiles \cap disk = {}
          /\ OUTPUT_VIDEO_FILE \in disk
          /\ exitStatus = 0
          /\ removed \cup skipped = TempFiles
    /\ failure # "remove"
    /\ removed \subseteq TempFiles
    /\ (InputFiles \cap disk0) \subseteq disk
    /\ OUTPUT_VIDEO_FILE \in (disk0 \cup created) => OUTPUT_VIDEO_FILE \in disk

C4_Witness == pc = "done" /\ skipped # {} /\ removed # {}

\* C5: an error raised by a step after narration synthesis ends the process
\* at once as an uncaught error: no later stage was invoked, cleanup did not
\* run, and every temporary file written so far is still on disk.  Files are
\* removed only after the mux has completed.
C5_CrashSkipsCleanup ==
    /\ failure \in PostNarrationCalls =>
          /\ pc = "crashed"
          /\ exitCause = "uncaught"
          /\ Len(trace) = StageIndex(failure)
          /\ Len(completed) = (IF failure = "probe" THEN 1 ELSE StageIndex(failure) - 1)
          /\ removed = {}
          /\ skipped = {}
          /\ (created \cap TempFiles) \subseteq disk
          /\ NarrationDefaultPath \in created
    /\ removed # {} => Len(completed) >= 5

C5_Witness ==
    /\ pc = "crashed" /\ failure = "mux"
    /\ TempFiles \subseteq created
    /\ TempFiles \subseteq disk

\* C6: when the synthesis call raises, the process exits at once through the
\* except clause: generate() was called exactly once, no path was returned,
\* no later stage and no cleanup ran, and no file was written or removed.
C6_SynthErrorIsFatal ==
    failure = "generate" =>
        /\ pc = "exited"
        /\ exitCause = "narration_caught"
        /\ exitStatus = 1
        /\ synthCalls = 1
        /\ narration_audio_path = None
        /\ trace = <<"narration">>
        /\ completed = <<>>
        /\ created = {}
        /\ removed = {}
        /\ disk = disk0

C6_Witness == failure = "generate" /\ pc = "exited" /\ synthCalls = 1

\* C7 as stated: a non-zero exit status comes only from the key guard's
\* explicit exit or from an uncaught error.
C7_OnlyTwoNonZeroExits ==
    exitStatus \notin {Running, 0} => exitCause \in {"key_guard", "uncaught"}

\* C7 amended: a non-zero exit status comes from the key guard's explicit
\* exit, from the explicit sys.exit(1) of generate_narration's except clause,
\* or from an uncaught error of another step; a run that reaches the end of
\* main exits with status 0.
C7_ThreeNonZeroExits ==
    /\ exitStatus \notin {Running, 0} =>
          \/ /\ exitCause = "key_guard"
             /\ pc = "exited"
             /\ apiKey = GuardedKey
             /\ failure = "none"
          \/ /\ exitCause = "narration_caught"
             /\ pc = "exited"
             /\ failure \in {"generate", "write_audio"}
          \/ /\ exitCause = "uncaught"
             /\ pc = "crashed"
             /\ failure \in PostNarrationCalls \cup {"open_script"}
    /\ pc = "done" => exitStatus = 0
    /\ Ended <=> exitStatus # Running

C7_Witness ==
    /\ exitStatus = 1
    /\ exitCause = "narration_caught"
    /\ failure = "write_audio"

\* C9: the stages are invoked in the order narration, silent video, word
\* timings, subtitle rendering, mux, cleanup, each at most once and each only
\* after the one before it returned; a run that reaches cleanup has completed
\* the five before it.
C9_StagesInOrder ==
    /\ IsPrefix(trace, Stages)
    /\ IsPrefix(completed, trace)
    /\ Len(trace) <= Len(completed) + 1
    /\ (Len(trace) = Len(completed) + 1 /\ ~Ended) => trace[Len(trace)] = "cleanup"
    /\ pc \in {"cleanup_silent", "cleanup_subtitled", "finish", "done"} =>
          /\ trace = Stages
          /\ IsPrefix(SubSeq(Stages, 1, 5), completed)
    /\ pc = "done" => completed = Stages

C9_Witness == pc = "done" /\ trace = Stages /\ completed = Stages

(***************************************************************************)
(* Properties of draw_subtitles_on_video                                   *)
(***************************************************************************)
\* Frame fc's timestamp lies in record k's [start, end)
Covers(k, fc) ==
    /\ word_timestamps[k].start * FPS <= fc * TicksPerSecond
    /\ fc * TicksPerSecond < word_timestamps[k].end * FPS

Matching(fc) == {k \in 1..Len(word_timestamps) : Covers(k, fc)}

FirstMatching(fc) == CHOOSE k \in Matching(fc) : \A j \in Matching(fc) : k <= j

\* Frame fc as read, and frame fc with the two passes of `text` drawn on it
Unmodified(fc)    == [src |-> fc, calls |-> <<>>]
WithWord(fc, text) == [src |-> fc, calls |-> PutTextCalls(text)]

\* The frames are written in the order read, one per frame read
WrittenInOrder ==
    /\ Len(written) = frame_count
    /\ \A i \in 1..Len(written) : written[i].src = i - 1

C2_OutsideEveryIntervalUnmodified ==
    /\ WrittenInOrder
    /\ \A i \in 1..Len(written) :
          Matching(i - 1) = {} => written[i] = Unmodified(i - 1)
    /\ (\A k \in 1..Len(word_timestamps) :
            word_timestamps[k].start = word_timestamps[k].end)
         => \A i \in 1..Len(written) : written[i] = Unmodified(i - 1)

C2_Witness ==
    \E i \in 1..Len(written) : \E k \in 1..Len(word_timestamps) :
        /\ word_timestamps[k].start = word_timestamps[k].end
        /\ word_timestamps[k].start * FPS = (i - 1) * TicksPerSecond
        /\ word_timestamps[k].word # ""
        /\ Matching(i - 1) = {}
        /\ written[i] = Unmodified(i - 1)

ScenarioRendered ==
    /\ pc = "released"
    /\ word_timestamps = GetWordTimestamps(ScenarioResult)
    /\ Len(written) = ScenarioFrames
    /\ written[FPS] = WithWord(FPS - 1, "HELLO")
    /\ written[FPS + 1] = WithWord(FPS, "WORLD")

(***************************************************************************)
(* Properties of create_silent_base_video                                  *)
(***************************************************************************)
\* C8: an image wider than the target aspect ratio is cropped left/right,
\* any other top/bottom, and the clip written is exactly
\* VIDEO_WIDTH x VIDEO_HEIGHT.
C8_OutputIsTargetSize ==
    /\ pc \in {"resize", "composed"} =>
          cropAxis = (IF imgSize[1] * VIDEO_HEIGHT > imgSize[2] * VIDEO_WIDTH
                        THEN "x" ELSE "y")
    /\ pc = "composed" => clipSize = <<VIDEO_WIDTH, VIDEO_HEIGHT>>

\* The crop branch alone
CropBranchMatchesAspect ==
    pc \in {"resize", "composed"} =>
        cropAxis = (IF imgSize[1] * VIDEO_HEIGHT > imgSize[2] * VIDEO_WIDTH
                      THEN "x" ELSE "y")

\* An image of the target aspect ratio does come out at the target size
ExactAspectComposed ==
    pc = "composed" /\ imgSize = <<9, 16>> /\ clipSize = <<VIDEO_WIDTH, VIDEO_HEIGHT>>

====
